---- MODULE Spec2Model ----
(***************************************************************************)
(* Model of main.py: the incremental minute-bar downloader.                *)
(*                                                                         *)
(* A timestamp is a positive integer (minutes).  A segment file is the     *)
(* sequence of its lines: the line 0 is a header line, a line n >= 1 is a  *)
(* data row whose index is the timestamp n.  A ticker directory is a       *)
(* function from the ordinals i of the files data_<i>.csv present in it to *)
(* the files' lines.  The provider is a bag of rows per ticker, to which   *)
(* rows are published as time passes.                                      *)
(***************************************************************************)
EXTENDS Integers, Sequences, FiniteSets, TLC

\* ---------------------------------------------------------------- bounds
History     == 11   \* minutes of history the provider holds before a first run with a backlog
MaxTicks    == 2    \* minutes that pass when one ticker is configured
MaxTicksOrch == 0   \* minutes that pass when several tickers are configured
MaxTicksBacklog == 0 \* minutes that pass after a first run with a backlog
MaxDup      == 2    \* rows the provider may get for one minute
MaxGoodWrites == 1  \* to_csv calls that may succeed before one raises
MaxSegs     == 13   \* a ticker is no longer updated once it has this many files
CapTiny     == 1    \* a configured cap below the size of any row
CapSmall    == 200  \* a configured cap holding a few rows
HeaderBytes == 20   \* serialized size of the header line
RowSmall    == 30   \* serialized size of a short data row

\* ------------------------------------------------------ program constants
estimated_bytes_per_row == 150
DOWNLOAD_PERIOD_DAYS    == 7
MinutesPerDay           == 24 * 60

None    == 0        \* "no timestamp"
Header  == 0        \* a header line
Tickers == {"A", "B"}
Caps    == {CapTiny, CapSmall}
RowSizes == {RowSmall, estimated_bytes_per_row}

VARIABLES
    MAX_FILE_SIZE_BYTES, \* the configured cap of a segment file
    rowBytes,            \* serialized size of one data row (a property of the data)
    config_data,         \* the configured tickers, in order; <<>> when there is no configuration
    now,                 \* the clock
    ticks_left,          \* minutes that may still pass
    upstream,            \* upstream[t][ts]: rows with timestamp ts the provider holds for t
    disk,                \* disk[t]: the ticker directory of t
    pc,                  \* "idle", "loop", "exited", "aborted"
    idx,                 \* position of the orchestrator in config_data
    exit_code,           \* exit status of the last process, -1 before any exit
    processed,           \* tickers handled so far by the running process
    failed,              \* kinds of failure seen so far by the running process
    settled,             \* settled[t]: the provider got no row for t since t's last completed update
    last                 \* what the last call of download_and_store_data did

vars == <<MAX_FILE_SIZE_BYTES, rowBytes, config_data, now, ticks_left, upstream, disk, pc,
          idx, exit_code, processed, failed, settled, last>>

\* ------------------------------------------------------------- helpers
Min(a, b) == IF a < b THEN a ELSE b

RECURSIVE SumSeq(_)
SumSeq(s) == IF s = <<>> THEN 0 ELSE Head(s) + SumSeq(Tail(s))

RECURSIVE MaxSeq(_)
MaxSeq(s) == IF Len(s) = 1 THEN s[1]
             ELSE LET m == MaxSeq(Tail(s)) IN IF Head(s) > m THEN Head(s) ELSE m

\* os.path.getsize: the bytes of the lines of a file
getsize(f) == SumSeq([i \in 1..Len(f) |-> IF f[i] = Header THEN HeaderBytes ELSE rowBytes])

\* the data rows of a file
RowsOf(f) == SelectSeq(f, LAMBDA x : x # Header)

\* decimal digits of an ordinal, most significant first
RECURSIVE Digits(_)
Digits(n) == IF n < 10 THEN <<n>> ELSE Append(Digits(n \div 10), n % 10)

\* the part of the name data_<i>.csv after "data_": the digits, then the '.',
\* which sorts below every digit
NameKey(i) == Append(Digits(i), -1)

\* string comparison of two file names
NameLess(i, j) ==
    LET a == NameKey(i)
        b == NameKey(j)
    IN \E k \in 1..Min(Len(a), Len(b)) :
          /\ \A m \in 1..(k - 1) : a[m] = b[m]
          /\ a[k] < b[k]

\* sorted(glob.glob("*.csv"))[-1]
csv_files_last(dir) ==
    CHOOSE o \in DOMAIN dir : \A p \in (DOMAIN dir) \ {o} : NameLess(p, o)

\* the loop of get_next_available_filename, from i on
RECURSIVE first_free(_, _)
first_free(dir, i) == IF i \notin DOMAIN dir THEN i ELSE first_free(dir, i + 1)

\* the loop starting with i = 1
get_next_available_filename_from_one(dir) == first_free(dir, 1)

\* get_next_available_filename: the loop starts with i = 0
get_next_available_filename(dir) == first_free(dir, 0)

get_latest_timestamp_from_dir(dir) ==
    IF DOMAIN dir = {} THEN None
    ELSE LET f == dir[csv_files_last(dir)] IN
         IF f = <<>> THEN None                       \* EmptyDataError
         ELSE LET index == Tail(f)                   \* the first line names the columns
                  valid_timestamps == SelectSeq(index, LAMBDA x : x # Header)
              IN IF valid_timestamps = <<>> THEN None
                 ELSE MaxSeq(valid_timestamps)

\* ------------------------------------------------------ the provider
RECURSIVE Repeat(_, _)
Repeat(x, n) == IF n = 0 THEN <<>> ELSE <<x>> \o Repeat(x, n - 1)

RECURSIVE Reverse(_)
Reverse(s) == IF s = <<>> THEN <<>> ELSE Append(Reverse(Tail(s)), Head(s))

\* the rows of a bag with timestamps in lo..hi, oldest first
RECURSIVE BagRows(_, _, _)
BagRows(bag, lo, hi) ==
    IF lo > hi THEN <<>> ELSE Repeat(lo, bag[lo]) \o BagRows(bag, lo + 1, hi)

\* yf.download(ticker, start, end): the rows the provider holds in
\* [start, end); with overlap it also returns the older rows, and it returns
\* them newest first when descending
download(t, start, end, overlap, descending) ==
    LET lo   == IF overlap \/ start < 1 THEN 1 ELSE start
        rows == BagRows(upstream[t], lo, end - 1)
    IN IF descending THEN Reverse(rows) ELSE rows

\* ------------------------------------------------------ the reconciler
RECURSIVE Insert(_, _)
Insert(x, s) ==
    IF s = <<>> THEN <<x>>
    ELSE IF x < Head(s) THEN <<x>> \o s
    ELSE <<Head(s)>> \o Insert(x, Tail(s))

\* data.sort_index(): ascending, equal timestamps all kept
RECURSIVE sort_index(_)
sort_index(data) ==
    IF data = <<>> THEN <<>>
    ELSE Insert(data[Len(data)], sort_index(SubSeq(data, 1, Len(data) - 1)))

\* data[data.index > latest_timestamp_from_csv]
filter_newer(data, latest) ==
    IF latest # None THEN SelectSeq(data, LAMBDA x : x > latest) ELSE data

Reconcile(data, latest) == filter_newer(sort_index(data), latest)

\* start_date_yf
start_date(latest, end) ==
    IF latest # None THEN latest + 1
    ELSE end - DOWNLOAD_PERIOD_DAYS * MinutesPerDay

\* the test with > for >=
already_up_to_date_strict(latest, end) ==
    latest # None /\ start_date(latest, end) > end

\* the test "start_date_yf >= end_date_yf" of a ticker with stored data
already_up_to_date(latest, end) ==
    latest # None /\ start_date(latest, end) >= end

\* ------------------------------------------------------ the segment writer
\* to_csv called with header=False
to_csv_no_header(dir, target, rows, write_header) ==
    (target :> ((IF target \in DOMAIN dir THEN dir[target] ELSE <<>>) \o rows)) @@ dir

\* to_csv opening the file with mode='w'
to_csv_truncating(dir, target, rows, write_header) ==
    (target :> ((IF write_header THEN <<Header>> ELSE <<>>) \o rows)) @@ dir

\* to_csv called with header=True
to_csv_always_header(dir, target, rows, write_header) ==
    (target :> ((IF target \in DOMAIN dir THEN dir[target] ELSE <<>>)
                \o <<Header>> \o rows)) @@ dir

\* chunk.to_csv(target, mode='a', header=write_header)
to_csv(dir, target, rows, write_header) ==
    LET old   == IF target \in DOMAIN dir THEN dir[target] ELSE <<>>
        lines == (IF write_header THEN <<Header>> ELSE <<>>) \o rows
    IN (target :> (old \o lines)) @@ dir

\* the file the rows go to first
select_target(dir) ==
    IF DOMAIN dir # {}
    THEN LET target == csv_files_last(dir) IN
         IF getsize(dir[target]) >= MAX_FILE_SIZE_BYTES
         THEN get_next_available_filename(dir)
         ELSE target
    ELSE get_next_available_filename(dir)

\* the rollover test always failing
needs_rollover_never(current_file_size, estimated_new_data_size) == FALSE

\* the rollover test without the size of the batch
needs_rollover_size_only(current_file_size, estimated_new_data_size) ==
    /\ current_file_size > 0
    /\ current_file_size > MAX_FILE_SIZE_BYTES

\* the rollover test
needs_rollover(current_file_size, estimated_new_data_size) ==
    /\ current_file_size > 0
    /\ current_file_size + estimated_new_data_size > MAX_FILE_SIZE_BYTES

\* the split test always failing
needs_split_never(nrows, estimated_new_data_size, current_file_size) == FALSE

\* the test that the rows are too many for one file
needs_split(nrows, estimated_new_data_size, current_file_size) ==
    /\ nrows > 1
    /\ estimated_new_data_size > MAX_FILE_SIZE_BYTES
    /\ current_file_size = 0

\* int(MAX_FILE_SIZE_BYTES / estimated_bytes_per_row * 0.90) without max(1, .)
num_rows_for_chunk_unclamped ==
    (MAX_FILE_SIZE_BYTES * 9) \div (estimated_bytes_per_row * 10)

\* max(1, int(MAX_FILE_SIZE_BYTES / estimated_bytes_per_row * 0.90))
num_rows_for_chunk ==
    LET n == (MAX_FILE_SIZE_BYTES * 9) \div (estimated_bytes_per_row * 10)
    IN IF n < 1 THEN 1 ELSE n

\* the loop "while not rows_to_write.empty"; calls is the number of to_csv
\* calls that succeed, the next one raises.  The result is the directory
\* and whether the loop ended without an exception.
RECURSIVE write_loop(_, _, _, _)
write_loop(dir, target_csv_file, rows_to_write, calls) ==
    IF rows_to_write = <<>> THEN [dir |-> dir, ok |-> TRUE]
    ELSE
    LET exists    == target_csv_file \in DOMAIN dir
        size0     == IF exists THEN getsize(dir[target_csv_file]) ELSE 0
        header0   == ~exists \/ size0 = 0
        estimated_new_data_size == Len(rows_to_write) * estimated_bytes_per_row
        roll      == needs_rollover(size0, estimated_new_data_size)
        target    == IF roll THEN get_next_available_filename(dir) ELSE target_csv_file
        write_header      == roll \/ header0
        current_file_size == IF roll THEN 0 ELSE size0
    IN IF calls = 0 THEN [dir |-> dir, ok |-> FALSE]
       ELSE IF needs_split(Len(rows_to_write), estimated_new_data_size, current_file_size)
       THEN LET n              == Min(num_rows_for_chunk, Len(rows_to_write))
                current_chunk  == SubSeq(rows_to_write, 1, n)
                remaining_rows == SubSeq(rows_to_write, n + 1, Len(rows_to_write))
                written        == to_csv(dir, target, current_chunk, write_header)
            IN write_loop(written,
                          IF remaining_rows # <<>>
                          THEN get_next_available_filename(written) ELSE target,
                          remaining_rows, calls - 1)
       ELSE [dir |-> to_csv(dir, target, rows_to_write, write_header), ok |-> TRUE]

\* lines 162-219: store the rows of a batch
store(dir, rows, calls) == write_loop(dir, select_target(dir), rows, calls)

\* ------------------------------------------------------ the state machine
NoDir == <<>>       \* a ticker directory without files

\* the provider's rows when it holds one row for each of the first h minutes
Backlog(h) == [ts \in 1..(History + MaxTicks + 1) |-> IF ts <= h THEN 1 ELSE 0]

\* the state before the first run, the provider holding h minutes of rows for
\* each configured ticker
Start(h, configs, ticks) ==
    /\ MAX_FILE_SIZE_BYTES \in Caps
    /\ rowBytes \in RowSizes
    /\ config_data \in configs
    /\ now = h + 1
    /\ ticks_left = ticks
    /\ upstream = [t \in Tickers |->
                     IF \E i \in 1..Len(config_data) : config_data[i] = t
                     THEN Backlog(h) ELSE Backlog(0)]
    /\ disk = [t \in Tickers |-> NoDir]
    /\ pc = "idle"
    /\ idx = 0
    /\ exit_code = -1
    /\ processed = <<>>
    /\ failed = {}
    /\ settled = [t \in Tickers |-> FALSE]
    /\ last = [ticker |-> "A", outcome |-> "none", latest |-> None, end |-> 0,
               fetch_called |-> FALSE, data |-> <<>>, rows |-> <<>>,
               before |-> NoDir, quiet |-> FALSE]

\* one ticker of which the provider holds nothing yet, two tickers of which
\* it holds the first minute, or one ticker of which it holds a backlog
Init == \/ Start(0, {<<"A">>}, MaxTicks)
        \/ Start(1, {<<"A", "B">>}, MaxTicksOrch)
        \/ Start(History, {<<"A">>}, MaxTicksBacklog)

\* a minute passes; the provider gets the rows of that minute
Tick ==
    /\ ticks_left > 0
    /\ ticks_left' = ticks_left - 1
    /\ now' = now + 1
    /\ \E n \in [Tickers -> 0..MaxDup] :
          /\ \A t \in Tickers : n[t] > 0 => \E i \in 1..Len(config_data) : config_data[i] = t
          /\ upstream' = [t \in Tickers |-> [upstream[t] EXCEPT ![now] = n[t]]]
          /\ settled' = [t \in Tickers |-> settled[t] /\ n[t] = 0]
    /\ UNCHANGED <<MAX_FILE_SIZE_BYTES, rowBytes, config_data, disk, pc,
                   idx, exit_code, processed, failed, last>>

\* __main__, lines 226-235: the process starts and loads its configuration
StartRun ==
    /\ pc \in {"idle", "exited", "aborted"}
    /\ pc' = "loop"
    /\ idx' = 1
    /\ exit_code' = -1
    /\ processed' = <<>>
    /\ failed' = {}
    /\ UNCHANGED <<MAX_FILE_SIZE_BYTES, rowBytes, config_data, now, ticks_left, upstream, disk,
                   settled, last>>

\* __main__, lines 228-231: parse_config returns None, the process exits
ConfigError ==
    /\ pc \in {"idle", "exited", "aborted"}
    /\ pc' = "exited"
    /\ idx' = 0
    /\ exit_code' = 0
    /\ processed' = <<>>
    /\ failed' = {"config"}
    /\ UNCHANGED <<MAX_FILE_SIZE_BYTES, rowBytes, config_data, now, ticks_left, upstream, disk,
                   settled, last>>

\* the orchestrator is about to call download_and_store_data for a ticker
InLoop ==
    /\ pc = "loop"
    /\ idx <= Len(config_data)
    /\ Cardinality(DOMAIN disk[config_data[idx]]) < MaxSegs

ticker == config_data[idx]
latest_timestamp_from_csv == get_latest_timestamp_from_dir(disk[ticker])

Note(outcome, called, data, rows) ==
    last' = [ticker |-> ticker, outcome |-> outcome,
             latest |-> latest_timestamp_from_csv, end |-> now,
             fetch_called |-> called, data |-> data, rows |-> rows,
             before |-> disk[ticker], quiet |-> settled[ticker]]

\* download_and_store_data returns, the loop goes on with the next ticker
Returns ==
    /\ idx' = idx + 1
    /\ processed' = Append(processed, ticker)
    /\ UNCHANGED <<MAX_FILE_SIZE_BYTES, rowBytes, config_data, now, ticks_left, upstream, pc,
                   exit_code>>

\* lines 108-118: the stored data reaches the current minute
UpToDate ==
    /\ InLoop
    /\ already_up_to_date(latest_timestamp_from_csv, now)
    /\ Note("uptodate", FALSE, <<>>, <<>>)
    /\ settled' = [settled EXCEPT ![ticker] = TRUE]
    /\ UNCHANGED <<disk, failed>>
    /\ Returns

\* yf.download raises outside of a try
FetchFailedUncaught ==
    /\ InLoop
    /\ ~already_up_to_date(latest_timestamp_from_csv, now)
    /\ Note("fetchfail", TRUE, <<>>, <<>>)
    /\ failed' = failed \cup {"fetch"}
    /\ pc' = "aborted"
    /\ exit_code' = 1
    /\ UNCHANGED <<MAX_FILE_SIZE_BYTES, rowBytes, config_data, now, ticks_left,
                   upstream, disk, idx, processed, settled>>

\* lines 123-137: yf.download raises
FetchFailed ==
    /\ InLoop
    /\ ~already_up_to_date(latest_timestamp_from_csv, now)
    /\ Note("fetchfail", TRUE, <<>>, <<>>)
    /\ failed' = failed \cup {"fetch"}
    /\ UNCHANGED <<disk, settled>>
    /\ Returns

\* the answer of the provider to the call of lines 126-133
Answers == { download(ticker, start_date(latest_timestamp_from_csv, now), now, o, d) :
               o \in BOOLEAN, d \in BOOLEAN }

\* lines 139-141: the provider has no row
NoData ==
    /\ InLoop
    /\ ~already_up_to_date(latest_timestamp_from_csv, now)
    /\ \E data \in Answers :
          /\ data = <<>>
          /\ Note("nodata", TRUE, data, <<>>)
    /\ settled' = [settled EXCEPT ![ticker] = TRUE]
    /\ UNCHANGED <<disk, failed>>
    /\ Returns

\* the target file opened before the test of line 155
NothingNewTouchesFile ==
    /\ InLoop
    /\ ~already_up_to_date(latest_timestamp_from_csv, now)
    /\ \E data \in Answers :
          /\ data # <<>>
          /\ Reconcile(data, latest_timestamp_from_csv) = <<>>
          /\ Note("filtered", TRUE, data, <<>>)
    /\ disk' = [disk EXCEPT ![ticker] = to_csv(@, select_target(@), <<>>, TRUE)]
    /\ settled' = [settled EXCEPT ![ticker] = TRUE]
    /\ UNCHANGED failed
    /\ Returns

\* lines 143-157: no row is left after the filter
NothingNew ==
    /\ InLoop
    /\ ~already_up_to_date(latest_timestamp_from_csv, now)
    /\ \E data \in Answers :
          /\ data # <<>>
          /\ Reconcile(data, latest_timestamp_from_csv) = <<>>
          /\ Note("filtered", TRUE, data, <<>>)
    /\ settled' = [settled EXCEPT ![ticker] = TRUE]
    /\ UNCHANGED <<disk, failed>>
    /\ Returns

\* lines 159-221: the rows are stored
Stored ==
    /\ InLoop
    /\ ~already_up_to_date(latest_timestamp_from_csv, now)
    /\ \E data \in Answers :
          LET rows == Reconcile(data, latest_timestamp_from_csv) IN
          /\ rows # <<>>
          /\ Note("written", TRUE, data, rows)
          /\ disk' = [disk EXCEPT ![ticker] = store(@, rows, Len(rows)).dir]
    /\ settled' = [settled EXCEPT ![ticker] = TRUE]
    /\ UNCHANGED failed
    /\ Returns

\* lines 207, 218: a to_csv call raises; nothing catches the exception, the
\* process ends with a traceback
WriteFailed ==
    /\ InLoop
    /\ ~already_up_to_date(latest_timestamp_from_csv, now)
    /\ \E data \in Answers :
          LET rows == Reconcile(data, latest_timestamp_from_csv) IN
          /\ rows # <<>>
          /\ \E calls \in 0..Min(MaxGoodWrites, Len(rows) - 1) :
                LET res == store(disk[ticker], rows, calls) IN
                /\ ~res.ok
                /\ disk' = [disk EXCEPT ![ticker] = res.dir]
          /\ Note("writefail", TRUE, data, rows)
    /\ settled' = [settled EXCEPT ![ticker] = FALSE]
    /\ failed' = failed \cup {"write"}
    /\ pc' = "aborted"
    /\ exit_code' = 1
    /\ UNCHANGED <<MAX_FILE_SIZE_BYTES, rowBytes, config_data, now, ticks_left, upstream, idx,
                   processed>>

\* line 246: every ticker was handled
AllTasksCompleted ==
    /\ pc = "loop"
    /\ idx > Len(config_data)
    /\ pc' = "exited"
    /\ exit_code' = 0
    /\ UNCHANGED <<MAX_FILE_SIZE_BYTES, rowBytes, config_data, now, ticks_left, upstream, disk,
                   idx, processed, failed, settled, last>>

Next ==
    \/ Tick
    \/ StartRun
    \/ ConfigError
    \/ UpToDate
    \/ FetchFailed
    \/ NoData
    \/ NothingNew
    \/ Stored
    \/ WriteFailed
    \/ AllTasksCompleted

Spec == Init /\ [][Next]_vars

\* ------------------------------------------------------ the claims
MaxOrd(dir) == CHOOSE o \in DOMAIN dir : \A p \in DOMAIN dir : p <= o

\* the lines of the files with ordinals i..n, in ordinal order
RECURSIVE LinesFrom(_, _, _)
LinesFrom(dir, i, n) ==
    IF i > n THEN <<>>
    ELSE (IF i \in DOMAIN dir THEN dir[i] ELSE <<>>) \o LinesFrom(dir, i + 1, n)

\* the data rows of a directory, its segments read in ordinal order
AllRows(dir) ==
    IF DOMAIN dir = {} THEN <<>> ELSE RowsOf(LinesFrom(dir, 0, MaxOrd(dir)))

StrictlyIncreasing(s) == \A i \in 1..(Len(s) - 1) : s[i] < s[i + 1]

IsPrefix(a, b) == Len(a) <= Len(b) /\ SubSeq(b, 1, Len(a)) = a

\* what a run added to each file of the directory: the lines after the old ones
AddedTo(before, after) ==
    [o \in DOMAIN after |->
        IF o \in DOMAIN before
        THEN SubSeq(after[o], Len(before[o]) + 1, Len(after[o]))
        ELSE after[o]]

\* nothing that was in the directory was removed or moved
OnlyAppended(before, after) ==
    \A o \in DOMAIN before : o \in DOMAIN after /\ IsPrefix(before[o], after[o])

Ran == last.outcome # "none"
After == disk[last.ticker]

\* C1: in every ticker directory the timestamps of all segments, read in
\* ordinal order, are strictly increasing, so none occurs twice.
C1_MonotonicTimestamps ==
    \A t \in Tickers : StrictlyIncreasing(AllRows(disk[t]))

\* C2: a run of a ticker that follows a completed run of that ticker, the
\* provider having got no row for it in between, leaves the ticker's
\* directory as it was.
C2_Idempotent ==
    (Ran /\ last.quiet) => After = last.before

\* C3: when the writer has stored a batch, every line that was on disk is
\* still in its file at its place, and the rows added, read in ordinal
\* order, are exactly the rows of the batch in their order.
C3_NoRowLostOrTwice ==
    last.outcome = "written" =>
        /\ OnlyAppended(last.before, After)
        /\ AllRows(AddedTo(last.before, After)) = last.rows

\* a batch was stored behind existing rows and went to several new segments
C3_Witness ==
    /\ last.outcome = "written"
    /\ DOMAIN last.before # {}
    /\ Len(last.rows) >= 2
    /\ Cardinality(DOMAIN After) >= Cardinality(DOMAIN last.before) + 2

\* C4 as stated: no segment is larger than the cap plus the estimated size
\* of one row.
C4_CapPlusOneRow ==
    \A t \in Tickers : \A o \in DOMAIN disk[t] :
        getsize(disk[t][o]) <= MAX_FILE_SIZE_BYTES + estimated_bytes_per_row

\* C4, amended: with rows no larger than their estimate, no segment is
\* larger than the cap plus the estimated size of one row plus the header.
C4_CapPlusOneRowAndHeader ==
    \A t \in Tickers : \A o \in DOMAIN disk[t] :
        getsize(disk[t][o]) <=
            MAX_FILE_SIZE_BYTES + estimated_bytes_per_row + HeaderBytes

\* a batch written into an empty directory made several segments, one of
\* them larger than the cap
C4_Witness ==
    /\ last.outcome = "written"
    /\ last.before = NoDir
    /\ Cardinality(DOMAIN After) >= 2
    /\ \E o \in DOMAIN After : getsize(After[o]) > MAX_FILE_SIZE_BYTES

NewSegments == DOMAIN After \ DOMAIN last.before

\* the batch would push the segment f over the cap
Pushes(f, rows) ==
    /\ getsize(f) > 0
    /\ getsize(f) + estimated_bytes_per_row * Len(rows) > MAX_FILE_SIZE_BYTES

C6_OnlyLastSegmentWritten ==
    last.outcome \in {"written", "writefail"} =>
        /\ \A o \in DOMAIN last.before :
              After[o] # last.before[o] => o = MaxOrd(last.before)
        /\ \A o \in NewSegments :
              \A p \in DOMAIN last.before : o > p

\* C7: a run that finds stored data reaching to within one minute of the
\* current instant does not call the provider and leaves the directory as
\* it was.
C7_NoOpWhenCurrent ==
    (Ran /\ last.latest # None /\ last.latest + 1 >= last.end) =>
        /\ ~last.fetch_called
        /\ After = last.before

\* a run found the stored data current
C7_Witness ==
    /\ last.outcome = "uptodate"
    /\ last.latest + 1 >= last.end
    /\ DOMAIN last.before # {}

Count(s, x) == Cardinality({i \in 1..Len(s) : s[i] = x})

RECURSIVE MinSeq(_)
MinSeq(s) == IF Len(s) = 1 THEN s[1]
             ELSE LET m == MinSeq(Tail(s)) IN IF Head(s) < m THEN Head(s) ELSE m

\* C8: after a run on an empty directory that stored rows, the directory
\* holds each row the provider returned as often as it was returned,
\* segment 0 exists and starts with a header, and its first row is the
\* oldest row returned.
C8_ResumeFromEmpty ==
    (last.outcome = "written" /\ last.before = NoDir) =>
        /\ \A ts \in 1..last.end :
              Count(AllRows(After), ts) = Count(last.data, ts)
        /\ 0 \in DOMAIN After
        /\ After[0][1] = Header
        /\ After[0][2] = MinSeq(last.data)

\* a first run stored several rows the provider returned newest first
C8_Witness ==
    /\ last.outcome = "written"
    /\ last.before = NoDir
    /\ Len(last.data) >= 2
    /\ last.data[1] > last.data[Len(last.data)]

\* C9: a failed call of the provider leaves the ticker's directory as it
\* was and does not end the process; a process that saw none but such
\* failures ends having handled every configured ticker in order.
C9_FetchFailureIsolated ==
    /\ last.outcome = "fetchfail" => After = last.before
    /\ ("fetch" \in failed /\ "write" \notin failed) => pc # "aborted"
    /\ (pc = "exited" /\ "fetch" \in failed) => processed = config_data

\* the provider failed for the first ticker and the rows of the second were
\* stored
C9_Witness ==
    /\ pc = "exited"
    /\ failed = {"fetch"}
    /\ processed = <<"A", "B">>
    /\ last.ticker = "B"
    /\ last.outcome = "written"

\* C10: a failed write does not end the process, which ends having handled
\* every configured ticker.
C10_WriteFailureIsolated ==
    /\ "write" \in failed => pc # "aborted"
    /\ (pc \in {"exited", "aborted"} /\ "write" \in failed) => processed = config_data

\* the largest timestamp among the rows of the segment with the highest
\* ordinal, None when there is no segment or it holds no row
HighestSegmentMax(dir) ==
    IF DOMAIN dir = {} THEN None
    ELSE LET rows == RowsOf(dir[MaxOrd(dir)]) IN
         IF rows = <<>> THEN None ELSE MaxSeq(rows)

\* C11: the resolver returns the largest timestamp of the segment with the
\* highest ordinal, and none exactly when the directory has no segment or
\* that segment has no row with a timestamp.
C11_ResolverReadsHighestSegment ==
    \A t \in Tickers :
        get_latest_timestamp_from_dir(disk[t]) = HighestSegmentMax(disk[t])

\* C12: a process that loaded its configuration ends with exit code 0,
\* whatever failed for its tickers; a process ends with another exit code
\* only if it could not load its configuration, and then it has handled no
\* ticker.
C12_ExitStatus ==
    /\ (pc \in {"exited", "aborted"} /\ "config" \notin failed) => exit_code = 0
    /\ (pc \in {"exited", "aborted"} /\ exit_code # 0) => "config" \in failed
    /\ "config" \in failed => processed = <<>>

\* C12, the other direction: a process that could not load its
\* configuration ends with an exit code other than 0.
C12_ConfigErrorExitsNonZero ==
    (pc = "exited" /\ "config" \in failed) => exit_code # 0

\* C13: every segment that is not empty starts with a header and has no
\* other; the lines a run adds to a segment start with a header if and only
\* if the segment did not exist or was empty before, and hold no other.
C13_HeaderPlacement ==
    /\ \A t \in Tickers : \A o \in DOMAIN disk[t] :
          disk[t][o] # <<>> =>
              /\ disk[t][o][1] = Header
              /\ Count(disk[t][o], Header) = 1
    /\ last.outcome \in {"written", "writefail"} =>
          \A o \in DOMAIN After :
              LET added == AddedTo(last.before, After)[o] IN
              added # <<>> =>
                  /\ added[1] = Header <=>
                        (o \notin DOMAIN last.before \/ getsize(last.before[o]) = 0)
                  /\ RowsOf(Tail(added)) = Tail(added)

\* a run appended rows, without a header, to a segment that held rows, in a
\* directory of several segments
C13_Witness ==
    /\ last.outcome = "written"
    /\ Cardinality(DOMAIN last.before) >= 2
    /\ \E o \in DOMAIN last.before :
          /\ getsize(last.before[o]) > 0
          /\ After[o] # last.before[o]
          /\ AddedTo(last.before, After)[o][1] # Header

\* C14: when the resolver found a timestamp, every row the run appends is
\* later than it, the appended rows are in ascending order with no
\* timestamp twice, and each is later than every row stored before.
C14_ReconcilerFilter ==
    (last.outcome \in {"written", "writefail"} /\ last.latest # None) =>
        LET added  == AllRows(AddedTo(last.before, After))
            stored == AllRows(last.before)
        IN /\ \A i \in 1..Len(added) : added[i] > last.latest
           /\ StrictlyIncreasing(added)
           /\ \A i \in 1..Len(added) : \A j \in 1..Len(stored) :
                 added[i] > stored[j]

\* C14, the part the filter of line 153 gives: the appended rows are later
\* than the timestamp the resolver found and in ascending order, equal
\* timestamps next to each other.
C14_LaterThanResolved ==
    (last.outcome \in {"written", "writefail"} /\ last.latest # None) =>
        LET added == AllRows(AddedTo(last.before, After))
        IN /\ \A i \in 1..Len(added) : added[i] > last.latest
           /\ \A i \in 1..(Len(added) - 1) : added[i] <= added[i + 1]

\* C15: in every directory with segments the timestamp the resolver finds
\* is the largest of all segments, and every row of a segment below the
\* highest one is older than every row of the highest one.
C15_LastSegmentSuffices ==
    \A t \in Tickers :
        DOMAIN disk[t] # {} =>
            /\ get_latest_timestamp_from_dir(disk[t]) = MaxSeq(AllRows(disk[t]))
            /\ \A o \in DOMAIN disk[t] : o < MaxOrd(disk[t]) =>
                  \A i \in 1..Len(RowsOf(disk[t][o])) :
                  \A j \in 1..Len(RowsOf(disk[t][MaxOrd(disk[t])])) :
                      RowsOf(disk[t][o])[i] < RowsOf(disk[t][MaxOrd(disk[t])])[j]

\* C16: a run adds rows to a segment that held bytes only if the size of
\* the segment plus 150 bytes for each row of the batch is within the cap;
\* when the segment the writer selects holds bytes and the batch does not
\* fit, every old segment stays as it was and the rows go to new segments,
\* the first one numbered by get_next_available_filename and starting with
\* a header.
C16_RolloverRule ==
    last.outcome \in {"written", "writefail"} =>
        /\ \A o \in DOMAIN last.before :
              (getsize(last.before[o]) > 0 /\ After[o] # last.before[o]) =>
                  getsize(last.before[o]) + estimated_bytes_per_row * Len(last.rows)
                      <= MAX_FILE_SIZE_BYTES
        /\ (/\ select_target(last.before) \in DOMAIN last.before
            /\ Pushes(last.before[select_target(last.before)], last.rows)) =>
              /\ \A o \in DOMAIN last.before : After[o] = last.before[o]
              /\ last.outcome = "written" =>
                    /\ get_next_available_filename(last.before) \in NewSegments
                    /\ \A o \in NewSegments :
                          o >= get_next_available_filename(last.before)
                    /\ After[get_next_available_filename(last.before)][1] = Header

\* a batch did not fit behind the rows of the selected segment, which was
\* below the cap, and went to one new segment
C16_Witness ==
    /\ last.outcome = "written"
    /\ select_target(last.before) \in DOMAIN last.before
    /\ getsize(last.before[select_target(last.before)]) < MAX_FILE_SIZE_BYTES
    /\ Pushes(last.before[select_target(last.before)], last.rows)
    /\ Cardinality(NewSegments) = 1

\* the segments a run added lines to
Written == {o \in DOMAIN After : AddedTo(last.before, After)[o] # <<>>}

\* C17: for every batch a run can have to store, the loop of the writer
\* ends after at most as many to_csv calls as the batch has rows; every
\* segment a completed write added lines to got at least one row, and each
\* of them but the highest got exactly max(1, floor(0.9 x cap / 150)) rows.
C17_WriteLoopTerminates ==
    /\ (InLoop /\ ~already_up_to_date(latest_timestamp_from_csv, now)) =>
          \A data \in Answers :
              LET rows == Reconcile(data, latest_timestamp_from_csv) IN
              rows # <<>> => store(disk[ticker], rows, Len(rows)).ok
    /\ last.outcome = "written" =>
          /\ Written # {}
          /\ Cardinality(Written) <= Len(last.rows)
          /\ \A o \in Written :
                /\ RowsOf(AddedTo(last.before, After)[o]) # <<>>
                /\ (\E p \in Written : p > o) =>
                      Len(RowsOf(AddedTo(last.before, After)[o])) = num_rows_for_chunk

\* with the cap of one byte a batch was split, one row for each segment,
\* in a directory that held segments
C17_Witness ==
    /\ last.outcome = "written"
    /\ MAX_FILE_SIZE_BYTES = CapTiny
    /\ DOMAIN last.before # {}
    /\ Len(last.rows) >= 2
    /\ Cardinality(Written) = Len(last.rows)

\* C18: the ordinals of the segments of a directory are 0..n-1 for the
\* number n of its segments, and get_next_available_filename returns the
\* highest ordinal + 1.
C18_GapFreeOrdinals ==
    \A t \in Tickers :
        /\ DOMAIN disk[t] = 0..(Cardinality(DOMAIN disk[t]) - 1)
        /\ get_next_available_filename(disk[t]) = Cardinality(DOMAIN disk[t])
        /\ DOMAIN disk[t] # {} =>
              get_next_available_filename(disk[t]) = MaxOrd(disk[t]) + 1

\* a run added a segment to a directory that held eleven or more
C18_Witness ==
    /\ last.outcome = "written"
    /\ Cardinality(DOMAIN last.before) >= 11
    /\ NewSegments # {}

\* C19: every segment a completed write created starts with a header and
\* holds at least one row, and a run that stored no row (the data was
\* current, the provider failed or had nothing, or the filter left nothing)
\* created no segment and changed none.
C19_NoEmptySegments ==
    /\ last.outcome = "written" =>
          \A o \in NewSegments :
              /\ Len(After[o]) >= 2
              /\ RowsOf(After[o]) # <<>>
    /\ last.outcome \in {"uptodate", "fetchfail", "nodata", "filtered"} =>
          /\ DOMAIN After = DOMAIN last.before
          /\ \A o \in DOMAIN After : After[o] = last.before[o]

\* the filter left no row of a fetch in a directory whose selected segment
\* was full, so that a write would have gone to a new segment
C19_Witness ==
    /\ last.outcome = "filtered"
    /\ last.data # <<>>
    /\ DOMAIN last.before # {}
    /\ select_target(last.before) \notin DOMAIN last.before

====
